---------------------------- MODULE Spec2Model ----------------------------
(***************************************************************************)
(* boost/serialization/singleton.hpp (1.64), the default configuration     *)
(* (USE_UNM_SINGLETON not defined): singleton_module (the lock gate),      *)
(* detail::singleton_wrapper<T> (the destruction flag) and singleton<T>    *)
(* (the accessors and the eager static touch).                             *)
(*                                                                         *)
(* The program state is held in the variables below; the member functions  *)
(* are operators on a record of that state (State), so that a property of  *)
(* a function can be evaluated in every reachable state, and the actions   *)
(* apply them.  T ranges over Types; the wrapped type is the counter       *)
(* struct Counter { int n = 0; } of the specification's scenarios.         *)
(***************************************************************************)
EXTENDS Integers, FiniteSets, Sequences, TLC

\* The wrapped types with which singleton<T> is instantiated in one load unit.
Types == {"A", "B"}

\* The increments of n the program makes, over all types.
MaxIncr == 3

\* The address of no object: the value of a reference that was not bound.
NoRef == 0

VARIABLES
    checked,         \* build configuration: TRUE when BOOST_ASSERT is compiled in
    get_lock,        \* the bool behind singleton_module::get_lock()
    t,               \* t[T]: the function-local static of singleton<T>::get_instance
    m_is_destroyed,  \* m_is_destroyed[T]: detail::singleton_wrapper<T>::m_is_destroyed
    addr,            \* addr[T]: the address of t (NoRef before it is constructed)
    next_addr,       \* the address the next constructed object gets
    n,               \* n[T]: the member n of the wrapped value
    ctor_count,      \* ctor_count[T]: how often the wrapped value's constructor ran
    instance,        \* instance[T]: the static reference member singleton<T>::instance
    instance_done,   \* instance_done[T]: the initializer of instance has run
    phase,           \* "init" (static initialization), "main", "exit" (teardown)
    returned,        \* returned[T]: the addresses successful accessor calls returned
    touched,         \* touched[T]: get_instance() of T was entered at least once
    incs,            \* incs[T]: completed get_mutable_instance().n++ on the live object
    gate_last,       \* the last gate call made: "none", "lock" or "unlock"
    gate_stops,      \* gate_stops[T]: a get_mutable_instance() of T was stopped by the gate
    last,            \* the last call made and what it observed
    \* singleton<T, threadsafe> (USE_UNM_SINGLETON), one type T, several threads
    ts_initialized,  \* singleton<T, lock>::initialized
    ts_mtx,          \* singleton<T, lock>::mtx: the thread that holds it, or NoThread
    ts_t,            \* the function-local static t of its get_instance()
    ts_ctor_count,   \* how often the construction of t was begun
    ts_pc,           \* ts_pc[th]: the line of get_instance() thread th is at
    ts_locked,       \* ts_locked[th]: the local variable locked of the call of th
    ts_calls,        \* ts_calls[th]: the calls of get_instance() th has made
    ts_saw,          \* ts_saw[th]: the value of initialized the call of th read
    ts_acq,          \* ts_acq[th]: the call of th has acquired the mutex
    ts_rel,          \* ts_rel[th]: the call of th has released the mutex
    ts_ret           \* ts_ret[th]: what the reference the last call of th returned refers to

progVars == <<checked, get_lock, t, m_is_destroyed, addr, next_addr, n, ctor_count,
              instance, instance_done, phase>>
histVars == <<returned, touched, incs, gate_last, gate_stops, last>>
tsVars == <<ts_initialized, ts_mtx, ts_t, ts_ctor_count, ts_pc, ts_locked, ts_calls,
            ts_saw, ts_acq, ts_rel, ts_ret>>
vars == <<progVars, histVars, tsVars>>

\* The part of the state the member functions read and write.
State ==
    [checked |-> checked, get_lock |-> get_lock, t |-> t,
     m_is_destroyed |-> m_is_destroyed, addr |-> addr, next_addr |-> next_addr,
     n |-> n, ctor_count |-> ctor_count]

-----------------------------------------------------------------------------
(* singleton_module *)

\* The value of the bool behind get_lock() at load time.  get_lock() is only
\* declared in the header; the specification gives the gate as unlocked at start.
get_lock_initial == FALSE

\* Variant of the code: lock() flips the gate instead of setting it.
lock_toggles(s) == [s EXCEPT !.get_lock = ~s.get_lock]

\* static void lock(){ get_lock() = true; }
lock(s) == [s EXCEPT !.get_lock = TRUE]

\* Variant of the code: unlock() writes true, as lock() does.
unlock_sets_true(s) == [s EXCEPT !.get_lock = TRUE]

\* static void unlock(){ get_lock() = false; }
unlock(s) == [s EXCEPT !.get_lock = FALSE]

\* static bool is_locked(){ return get_lock(); }
is_locked(s) == s.get_lock

-----------------------------------------------------------------------------
(* detail::singleton_wrapper<T> *)

\* The implicit constructor of singleton_wrapper<T>: it constructs the base T
\* (Counter: n = 0) in the storage of t and does not touch m_is_destroyed.
singleton_wrapper_ctor(s, T) ==
    [s EXCEPT !.t[T] = "constructed",
              !.addr[T] = s.next_addr,
              !.next_addr = s.next_addr + 1,
              !.n[T] = 0,
              !.ctor_count[T] = s.ctor_count[T] + 1]

\* Variant of the code: one flag shared by the wrappers of all types.
singleton_wrapper_dtor_shared(s, T) ==
    [s EXCEPT !.m_is_destroyed = [U \in Types |-> TRUE], !.t[T] = "destroying"]

\* Variant of the code: the destructor also resets the gate.
singleton_wrapper_dtor_unlocks(s, T) ==
    [s EXCEPT !.m_is_destroyed[T] = TRUE, !.t[T] = "destroying", !.get_lock = FALSE]

\* Variant of the code: the destructor does not set the flag.
singleton_wrapper_dtor_noflag(s, T) == [s EXCEPT !.t[T] = "destroying"]

\* ~singleton_wrapper(){ m_is_destroyed = true; }: the body of the derived
\* destructor; the destructor of the base T runs after it (base_dtor).
singleton_wrapper_dtor(s, T) ==
    [s EXCEPT !.m_is_destroyed[T] = TRUE, !.t[T] = "destroying"]

\* The destructor of the base T, run after the body of ~singleton_wrapper;
\* with it the lifetime of t ends.
base_dtor(s, T) == [s EXCEPT !.t[T] = "destroyed"]

-----------------------------------------------------------------------------
(* singleton<T> *)

Result(s, outcome, ref) == [s |-> s, outcome |-> outcome, ref |-> ref]

\* Variant of the code: t is an automatic object, constructed on every call.
static_local_t_nonstatic(s, T) == singleton_wrapper_ctor(s, T)

\* Variant of the code: t is constructed again after its destruction.
static_local_t_rebuild(s, T) ==
    IF s.t[T] \in {"unconstructed", "destroyed"} THEN singleton_wrapper_ctor(s, T) ELSE s

\* static detail::singleton_wrapper< T > t;  constructed when control first
\* passes the declaration, never again (not after its destruction either).
static_local_t(s, T) ==
    IF s.t[T] = "unconstructed" THEN singleton_wrapper_ctor(s, T) ELSE s

\* Variant of the code: get_instance() without BOOST_ASSERT(! m_is_destroyed).
get_instance_noassert(s, T) ==
    LET s1 == static_local_t(s, T) IN Result(s1, "returned", s1.addr[T])

\* static T & get_instance(): the static t, then
\* BOOST_ASSERT(! m_is_destroyed), use(& instance) (empty), return t.
get_instance(s, T) ==
    LET s1 == static_local_t(s, T)
    IN  IF s1.checked /\ s1.m_is_destroyed[T]
        THEN Result(s1, "stopped", NoRef)
        ELSE Result(s1, "returned", s1.addr[T])

\* Variant of the code: the gate check is not compiled out with the assertions.
get_mutable_instance_always_checks(s, T) ==
    IF is_locked(s) THEN Result(s, "stopped", NoRef) ELSE get_instance(s, T)

\* Variant of the code: the gate is checked after get_instance() has run.
get_mutable_instance_late_check(s, T) ==
    LET r == get_instance(s, T)
    IN  IF s.checked /\ is_locked(s) THEN Result(r.s, "stopped", NoRef) ELSE r

\* Variant of the code: get_mutable_instance() without BOOST_ASSERT(! is_locked()).
get_mutable_instance_nogate(s, T) == get_instance(s, T)

\* static T & get_mutable_instance(){ BOOST_ASSERT(! is_locked()); return get_instance(); }
get_mutable_instance(s, T) ==
    IF s.checked /\ is_locked(s)
    THEN Result(s, "stopped", NoRef)
    ELSE get_instance(s, T)

\* Variant of the code: get_const_instance() checks the gate too.
get_const_instance_gated(s, T) == get_mutable_instance(s, T)

\* Variant of the code: get_const_instance() returns a reference to a copy.
get_const_instance_copy(s, T) ==
    LET r == get_instance(s, T)
    IN  IF r.outcome = "returned" THEN Result(r.s, "returned", r.s.next_addr) ELSE r

\* static const T & get_const_instance(){ return get_instance(); }
get_const_instance(s, T) == get_instance(s, T)

\* static bool is_destroyed(){ return detail::singleton_wrapper< T >::m_is_destroyed; }
is_destroyed(s, T) == s.m_is_destroyed[T]

\* What a call of a query gives: the state it leaves, how it ended, the bool
\* it returned.
Answer(s, outcome, flag) == [s |-> s, outcome |-> outcome, flag |-> flag]

\* Variant of the code: is_destroyed() reaches the flag through get_instance().
is_destroyed_call_via_instance(s, T) ==
    LET r == get_instance(s, T) IN Answer(r.s, r.outcome, r.s.m_is_destroyed[T])

\* A call of is_destroyed(): it returns the flag and does nothing else.
is_destroyed_call(s, T) == Answer(s, "returned", is_destroyed(s, T))

\* A call of is_locked(): it returns the gate and does nothing else.
is_locked_call(s) == Answer(s, "returned", is_locked(s))

\* Variant of the code: the initializer of instance constructs a wrapper of its own.
instance_initializer_constructs(s, T) ==
    LET s1 == singleton_wrapper_ctor(s, T) IN Result(s1, "returned", s1.addr[T])

\* T & singleton< T >::instance = singleton< T >::get_instance();
instance_initializer(s, T) == get_instance(s, T)

-----------------------------------------------------------------------------
(* singleton<T, threadsafe> (USE_UNM_SINGLETON) *)

\* The threads that call get_instance(), and the calls each makes.
NThreads == 2
MaxCalls == 2
Threads == 1..NThreads

\* The value of ts_mtx while no thread holds the mutex.
NoThread == 0

\* template <typename T, bool threadsafe = true>
threadsafe == TRUE

\* Variant of the code: the mutex is never taken.
ts_needs_lock_never(init) == FALSE

\* Variant of the code: the mutex is taken on every call.
ts_needs_lock_always(init) == TRUE

\* if (threadsafe && !initialized)
ts_needs_lock(init) == threadsafe /\ ~init

\* Variant of the code: the mutex is not released.
ts_releases_never(locked) == FALSE

\* if (locked) { mtx.unlock(); }
ts_releases(locked) == locked

\* mtx is unlocked, initialized = false, t is not constructed; no call is made.
TSInit ==
    /\ ts_initialized = FALSE
    /\ ts_mtx = NoThread
    /\ ts_t = "unconstructed"
    /\ ts_ctor_count = 0
    /\ ts_pc = [th \in Threads |-> "idle"]
    /\ ts_locked = [th \in Threads |-> FALSE]
    /\ ts_calls = [th \in Threads |-> 0]
    /\ ts_saw = [th \in Threads |-> FALSE]
    /\ ts_acq = [th \in Threads |-> FALSE]
    /\ ts_rel = [th \in Threads |-> FALSE]
    /\ ts_ret = [th \in Threads |-> "none"]

-----------------------------------------------------------------------------
(* The program: static initialization, main, teardown at exit *)

\* The variables take the values of the state record s.
Apply(s) ==
    /\ checked' = s.checked
    /\ get_lock' = s.get_lock
    /\ t' = s.t
    /\ m_is_destroyed' = s.m_is_destroyed
    /\ addr' = s.addr
    /\ next_addr' = s.next_addr
    /\ n' = s.n
    /\ ctor_count' = s.ctor_count

\* What the last call observed: the function called, through which singleton<T>,
\* how it ended, the reference or the bool it returned, the value of n read
\* through a returned const reference, and the gate and the flag before the call.
Call(op, T, outcome, ref, flag, val) ==
    [op |-> op, T |-> T, outcome |-> outcome, ref |-> ref, flag |-> flag, val |-> val,
     pre_lock |-> get_lock, pre_destroyed |-> m_is_destroyed[T]]

\* The sum of f over the set S.
RECURSIVE Total(_, _)
Total(f, S) ==
    IF S = {} THEN 0
    ELSE LET x == CHOOSE y \in S : TRUE IN f[x] + Total(f, S \ {x})

\* The lifetime of the object t of T has begun and has not ended.
Live(s, T) == s.t[T] \in {"constructed", "destroying"}

\* A successful accessor call adds the reference it returned to returned[T].
Returns(r, T) ==
    returned' = IF r.outcome = "returned"
                THEN [returned EXCEPT ![T] = @ \cup {r.ref}]
                ELSE returned

\* get_instance() is entered by every accessor call the gate does not stop.
Touches(r, T, viaGate) ==
    touched' = IF viaGate /\ checked /\ get_lock THEN touched
               ELSE [touched EXCEPT ![T] = TRUE]

Init ==
    /\ checked \in BOOLEAN
    /\ get_lock = get_lock_initial
    /\ t = [T \in Types |-> "unconstructed"]
    /\ m_is_destroyed = [T \in Types |-> FALSE]
    /\ addr = [T \in Types |-> NoRef]
    /\ next_addr = NoRef + 1
    /\ n = [T \in Types |-> 0]
    /\ ctor_count = [T \in Types |-> 0]
    /\ instance = [T \in Types |-> NoRef]
    /\ instance_done = [T \in Types |-> FALSE]
    /\ phase = "init"
    /\ returned = [T \in Types |-> {}]
    /\ touched = [T \in Types |-> FALSE]
    /\ incs = [T \in Types |-> 0]
    /\ gate_last = "none"
    /\ gate_stops = [T \in Types |-> FALSE]
    /\ last = [op |-> "none", T |-> "A", outcome |-> "returned", ref |-> NoRef,
               flag |-> FALSE, val |-> 0, pre_lock |-> FALSE, pre_destroyed |-> FALSE]
    /\ TSInit

\* The dynamic initialization of singleton<T>::instance (the eager touch),
\* once per T, during static initialization.
EagerTouch(T) ==
    /\ phase = "init"
    /\ ~instance_done[T]
    /\ LET r == instance_initializer(State, T)
       IN  /\ Apply(r.s)
           /\ instance' = [instance EXCEPT ![T] = r.ref]
           /\ Returns(r, T)
           /\ Touches(r, T, FALSE)
           /\ last' = Call("instance_init", T, r.outcome, r.ref, FALSE, 0)
    /\ instance_done' = [instance_done EXCEPT ![T] = TRUE]
    /\ UNCHANGED <<tsVars, phase, incs, gate_last, gate_stops>>

\* A call of singleton<T>::get_mutable_instance().
GetMutableInstance(T) ==
    LET r == get_mutable_instance(State, T)
    IN  /\ Apply(r.s)
        /\ Returns(r, T)
        /\ Touches(r, T, TRUE)
        /\ gate_stops' = IF checked /\ get_lock
                         THEN [gate_stops EXCEPT ![T] = TRUE] ELSE gate_stops
        /\ last' = Call("get_mutable_instance", T, r.outcome, r.ref, FALSE, 0)
        /\ UNCHANGED <<tsVars, instance, instance_done, phase, incs, gate_last>>

\* singleton<T>::get_mutable_instance().n++ : the call, then the increment of n
\* through the returned reference.  A write through a reference to an object
\* whose lifetime has ended is undefined: the model keeps no value for the
\* dead storage (n[T] stays the last value of the live object), and every read
\* of it gives any value (GetConstInstance).
Increment(T) ==
    /\ Total(n, Types) < MaxIncr
    /\ LET r == get_mutable_instance(State, T)
       IN  /\ Returns(r, T)
           /\ Touches(r, T, TRUE)
           /\ gate_stops' = IF checked /\ get_lock
                            THEN [gate_stops EXCEPT ![T] = TRUE] ELSE gate_stops
           /\ last' = Call("increment", T, r.outcome, r.ref, FALSE, 0)
           /\ IF r.outcome # "returned"
              THEN Apply(r.s) /\ incs' = incs
              ELSE IF Live(r.s, T)
              THEN /\ Apply(IF r.ref = r.s.addr[T]
                            THEN [r.s EXCEPT !.n[T] = @ + 1] ELSE r.s)
                   /\ incs' = [incs EXCEPT ![T] = @ + 1]
              ELSE /\ Apply(r.s)
                   /\ incs' = incs
    /\ UNCHANGED <<tsVars, instance, instance_done, phase, gate_last>>

\* singleton<T>::get_const_instance().n : the call, then the read of n through
\* the returned reference.  A read through a reference to an object whose
\* lifetime has ended is undefined: it may give any value.
GetConstInstance(T) ==
    LET r == get_const_instance(State, T)
    IN  /\ Apply(r.s)
        /\ Returns(r, T)
        /\ Touches(r, T, FALSE)
        /\ \E v \in 0..MaxIncr :
              /\ r.outcome # "returned" => v = 0
              /\ (r.outcome = "returned" /\ Live(r.s, T)) =>
                     v = (IF r.ref = r.s.addr[T] THEN r.s.n[T] ELSE 0)
              /\ last' = Call("get_const_instance", T, r.outcome, r.ref, FALSE, v)
        /\ UNCHANGED <<tsVars, instance, instance_done, phase, incs, gate_last, gate_stops>>

\* A call of singleton<T>::is_destroyed().
IsDestroyed(T) ==
    LET r == is_destroyed_call(State, T)
    IN  /\ Apply(r.s)
        /\ last' = Call("is_destroyed", T, r.outcome, NoRef, r.flag, 0)
        /\ UNCHANGED <<tsVars, instance, instance_done, phase, returned, touched, incs,
                       gate_last, gate_stops>>

\* A call of singleton<T>::lock() (singleton_module::lock, inherited).
Lock(T) ==
    /\ Apply(lock(State))
    /\ gate_last' = "lock"
    /\ last' = Call("lock", T, "returned", NoRef, FALSE, 0)
    /\ UNCHANGED <<tsVars, instance, instance_done, phase, returned, touched, incs, gate_stops>>

\* A call of singleton<T>::unlock().
Unlock(T) ==
    /\ Apply(unlock(State))
    /\ gate_last' = "unlock"
    /\ last' = Call("unlock", T, "returned", NoRef, FALSE, 0)
    /\ UNCHANGED <<tsVars, instance, instance_done, phase, returned, touched, incs, gate_stops>>

\* A call of singleton<T>::is_locked().
IsLocked(T) ==
    LET r == is_locked_call(State)
    IN  /\ Apply(r.s)
        /\ last' = Call("is_locked", T, r.outcome, NoRef, r.flag, 0)
        /\ UNCHANGED <<tsVars, instance, instance_done, phase, returned, touched, incs,
                       gate_last, gate_stops>>

\* Static initialization is over; main is entered.
EnterMain ==
    /\ phase = "init"
    /\ phase' = "main"
    /\ UNCHANGED <<tsVars, checked, get_lock, t, m_is_destroyed, addr, next_addr, n,
                   ctor_count, instance, instance_done, histVars>>

\* main returns (or exit is called): the destruction of the objects of static
\* storage duration begins.
Exit ==
    /\ phase = "main"
    /\ phase' = "exit"
    /\ UNCHANGED <<tsVars, checked, get_lock, t, m_is_destroyed, addr, next_addr, n,
                   ctor_count, instance, instance_done, histVars>>

\* No destructor of a wrapper is running.
NoTeardownRunning == \A U \in Types : t[U] # "destroying"

\* The host tears down t of T: objects of static storage duration are
\* destroyed in the reverse order of their construction.  The body of
\* ~singleton_wrapper runs first.
TeardownBegin(T) ==
    /\ phase = "exit"
    /\ t[T] = "constructed"
    /\ NoTeardownRunning
    /\ \A U \in Types : t[U] = "constructed" => addr[U] <= addr[T]
    /\ Apply(singleton_wrapper_dtor(State, T))
    /\ last' = Call("teardown_begin", T, "returned", NoRef, FALSE, 0)
    /\ UNCHANGED <<tsVars, instance, instance_done, phase, returned, touched, incs,
                   gate_last, gate_stops>>

\* The destructor of the base T has run (any call above may be made from
\* inside it, between TeardownBegin and this step); the lifetime of t ends.
TeardownEnd(T) ==
    /\ t[T] = "destroying"
    /\ Apply(base_dtor(State, T))
    /\ last' = Call("teardown_end", T, "returned", NoRef, FALSE, 0)
    /\ UNCHANGED <<tsVars, instance, instance_done, phase, returned, touched, incs,
                   gate_last, gate_stops>>

Next ==
    \/ \E T \in Types : EagerTouch(T)
    \/ \E T \in Types : GetMutableInstance(T)
    \/ \E T \in Types : Increment(T)
    \/ \E T \in Types : GetConstInstance(T)
    \/ \E T \in Types : IsDestroyed(T)
    \/ \E T \in Types : Lock(T)
    \/ \E T \in Types : Unlock(T)
    \/ \E T \in Types : IsLocked(T)
    \/ EnterMain
    \/ Exit
    \/ \E T \in Types : TeardownBegin(T)
    \/ \E T \in Types : TeardownEnd(T)

Spec == Init /\ [][Next]_vars

-----------------------------------------------------------------------------
(* The threads of the thread-safe variant *)

\* Thread th calls get_instance(): bool locked = false;
TSCall(th) ==
    /\ ts_pc[th] = "idle"
    /\ ts_calls[th] < MaxCalls
    /\ ts_calls' = [ts_calls EXCEPT ![th] = @ + 1]
    /\ ts_locked' = [ts_locked EXCEPT ![th] = FALSE]
    /\ ts_saw' = [ts_saw EXCEPT ![th] = FALSE]
    /\ ts_acq' = [ts_acq EXCEPT ![th] = FALSE]
    /\ ts_rel' = [ts_rel EXCEPT ![th] = FALSE]
    /\ ts_pc' = [ts_pc EXCEPT ![th] = "l106"]
    /\ UNCHANGED <<progVars, histVars, ts_initialized, ts_mtx, ts_t, ts_ctor_count, ts_ret>>

\* if (threadsafe && !initialized): the read of initialized, without the mutex.
TSCheck(th) ==
    /\ ts_pc[th] = "l106"
    /\ ts_saw' = [ts_saw EXCEPT ![th] = ts_initialized]
    /\ ts_pc' = [ts_pc EXCEPT ![th] =
                    IF ts_needs_lock(ts_initialized) THEN "l108" ELSE "l111"]
    /\ UNCHANGED <<progVars, histVars, ts_initialized, ts_mtx, ts_t, ts_ctor_count,
                   ts_locked, ts_calls, ts_acq, ts_rel, ts_ret>>

\* mtx.lock(); locked = true;  (blocks while another thread holds the mutex)
TSLock(th) ==
    /\ ts_pc[th] = "l108"
    /\ ts_mtx = NoThread
    /\ ts_mtx' = th
    /\ ts_locked' = [ts_locked EXCEPT ![th] = TRUE]
    /\ ts_acq' = [ts_acq EXCEPT ![th] = TRUE]
    /\ ts_pc' = [ts_pc EXCEPT ![th] = "l111"]
    /\ UNCHANGED <<progVars, histVars, ts_initialized, ts_t, ts_ctor_count,
                   ts_calls, ts_saw, ts_rel, ts_ret>>

\* static singleton_wrapper<T> t;  the thread passes the declaration: when t is
\* constructed it goes on; otherwise it begins the construction (the
\* declaration itself is not taken to exclude a second thread).
TSStatic(th) ==
    /\ ts_pc[th] = "l111"
    /\ IF ts_t = "constructed"
       THEN /\ ts_pc' = [ts_pc EXCEPT ![th] = "l112"]
            /\ UNCHANGED <<ts_t, ts_ctor_count>>
       ELSE /\ ts_t' = "constructing"
            /\ ts_ctor_count' = ts_ctor_count + 1
            /\ ts_pc' = [ts_pc EXCEPT ![th] = "ctor"]
    /\ UNCHANGED <<progVars, histVars, ts_initialized, ts_mtx, ts_locked, ts_calls,
                   ts_saw, ts_acq, ts_rel, ts_ret>>

\* The constructor of t, run by th, completes.
TSCtorDone(th) ==
    /\ ts_pc[th] = "ctor"
    /\ ts_t' = "constructed"
    /\ ts_pc' = [ts_pc EXCEPT ![th] = "l112"]
    /\ UNCHANGED <<progVars, histVars, ts_initialized, ts_mtx, ts_ctor_count, ts_locked,
                   ts_calls, ts_saw, ts_acq, ts_rel, ts_ret>>

\* initialized = true;
TSSetInitialized(th) ==
    /\ ts_pc[th] = "l112"
    /\ ts_initialized' = TRUE
    /\ ts_pc' = [ts_pc EXCEPT ![th] = "l113"]
    /\ UNCHANGED <<progVars, histVars, ts_mtx, ts_t, ts_ctor_count, ts_locked,
                   ts_calls, ts_saw, ts_acq, ts_rel, ts_ret>>

\* if (locked) { mtx.unlock(); }
TSUnlock(th) ==
    /\ ts_pc[th] = "l113"
    /\ IF ts_releases(ts_locked[th])
       THEN /\ ts_mtx' = NoThread
            /\ ts_rel' = [ts_rel EXCEPT ![th] = TRUE]
       ELSE UNCHANGED <<ts_mtx, ts_rel>>
    /\ ts_pc' = [ts_pc EXCEPT ![th] = "l117"]
    /\ UNCHANGED <<progVars, histVars, ts_initialized, ts_t, ts_ctor_count, ts_locked,
                   ts_calls, ts_saw, ts_acq, ts_ret>>

\* return static_cast<T &>(t);  ts_ret records whether t was constructed then.
TSReturn(th) ==
    /\ ts_pc[th] = "l117"
    /\ ts_ret' = [ts_ret EXCEPT ![th] =
                     IF ts_t = "constructed" THEN "object" ELSE "unconstructed"]
    /\ ts_pc' = [ts_pc EXCEPT ![th] = "idle"]
    /\ UNCHANGED <<progVars, histVars, ts_initialized, ts_mtx, ts_t, ts_ctor_count, ts_locked,
                   ts_calls, ts_saw, ts_acq, ts_rel>>

\* A step of thread th inside get_instance().
TSStep(th) ==
    \/ TSCheck(th)
    \/ TSLock(th)
    \/ TSStatic(th)
    \/ TSCtorDone(th)
    \/ TSSetInitialized(th)
    \/ TSUnlock(th)
    \/ TSReturn(th)

\* The thread-safe variant carries no assertion: the build is the unchecked one.
InitTS == Init /\ ~checked

NextTS ==
    \/ \E th \in Threads : TSCall(th)
    \/ \E th \in Threads : TSCheck(th)
    \/ \E th \in Threads : TSLock(th)
    \/ \E th \in Threads : TSStatic(th)
    \/ \E th \in Threads : TSCtorDone(th)
    \/ \E th \in Threads : TSSetInitialized(th)
    \/ \E th \in Threads : TSUnlock(th)
    \/ \E th \in Threads : TSReturn(th)

SpecTS == InitTS /\ [][NextTS]_vars

\* Every thread inside get_instance() is scheduled again: it takes its next
\* step if that step stays enabled.
SpecTSFair == SpecTS /\ \A th \in Threads : WF_vars(TSStep(th))

-----------------------------------------------------------------------------
(* Properties *)

\* The calls of get_mutable_instance(), and all accessor calls.
MutableOps == {"get_mutable_instance", "increment"}
AccessorOps == MutableOps \cup {"get_const_instance"}

\* C1 (gate enforcement): in the checked configuration, in every reachable
\* state where the gate is locked, get_mutable_instance() of every T takes the
\* fatal-stop path, returns no reference and leaves the state as it was; in
\* every state where the gate is unlocked and T's wrapper is not destroyed it
\* returns normally, with a reference to the object t of T.  The same holds of
\* the calls the program made.
C1_GateEnforcement ==
    /\ \A T \in Types :
          LET r == get_mutable_instance(State, T)
          IN  /\ (checked /\ is_locked(State)) =>
                    r.outcome = "stopped" /\ r.ref = NoRef /\ r.s = State
              /\ (~is_locked(State) /\ ~is_destroyed(State, T)) =>
                    r.outcome = "returned" /\ r.ref # NoRef /\ r.ref = r.s.addr[T]
    /\ last.op \in MutableOps =>
          /\ (checked /\ last.pre_lock) =>
                last.outcome = "stopped" /\ last.ref = NoRef
          /\ (~last.pre_lock /\ ~last.pre_destroyed) =>
                last.outcome = "returned" /\ last.ref # NoRef /\ last.ref = addr[last.T]

\* A call of get_mutable_instance() made with the gate locked was stopped.
C1_Witness ==
    /\ checked
    /\ last.op = "get_mutable_instance"
    /\ last.pre_lock
    /\ last.outcome = "stopped"
    /\ gate_last = "lock"

\* C2 (const access ignores the gate): in every reachable state and for every
\* T, get_const_instance() ends the same way, returns the same reference and
\* leaves the same state whether the gate is locked or unlocked, and never
\* changes the gate; with T not destroyed it returns normally, also after
\* lock().
C2_ConstIgnoresGate ==
    /\ \A T \in Types :
          LET flipped == [State EXCEPT !.get_lock = ~State.get_lock]
              a == get_const_instance(State, T)
              b == get_const_instance(flipped, T)
          IN  /\ a.outcome = b.outcome
              /\ a.ref = b.ref
              /\ a.s.get_lock = State.get_lock
              /\ b.s = [a.s EXCEPT !.get_lock = flipped.get_lock]
              /\ ~is_destroyed(State, T) => a.outcome = "returned" /\ a.ref # NoRef
    /\ (last.op = "get_const_instance" /\ ~last.pre_destroyed) =>
          last.outcome = "returned" /\ last.ref = addr[last.T] /\ get_lock = last.pre_lock

\* A call of get_const_instance() made with the gate locked, in the checked
\* configuration, returned.
C2_Witness ==
    /\ checked
    /\ last.op = "get_const_instance"
    /\ last.pre_lock
    /\ last.outcome = "returned"
    /\ last.ref # NoRef

\* C3 (uniqueness): all successful accessor calls of a type T (mutable, const
\* and the eager touch, in any order) returned the same reference, that of the
\* object t of T, which is also what instance is bound to; two distinct types
\* never share a reference.
C3_Uniqueness ==
    /\ \A T \in Types :
          /\ Cardinality(returned[T]) <= 1
          /\ NoRef \notin returned[T]
          /\ returned[T] \subseteq {addr[T]}
          /\ instance_done[T] /\ instance[T] # NoRef => instance[T] = addr[T]
    /\ \A T, U \in Types : T # U => returned[T] \cap returned[U] = {}

\* Both types were handed out; on A the eager touch, an increment through
\* get_mutable_instance() and now a get_const_instance() all returned.
C3_Witness ==
    /\ \A T \in Types : returned[T] # {}
    /\ instance_done["A"] /\ instance["A"] # NoRef
    /\ incs["A"] > 0
    /\ last.op = "get_const_instance" /\ last.T = "A" /\ last.outcome = "returned"

\* C4 (lazy exactly-once construction): the constructor of the wrapped value
\* of T has run exactly once if get_instance() of T was entered (by an
\* accessor call that the gate did not stop, or by the eager touch), and not
\* at all before; t is unconstructed exactly until then.
C4_ConstructedOnce ==
    \A T \in Types :
        /\ ctor_count[T] = (IF touched[T] THEN 1 ELSE 0)
        /\ (t[T] = "unconstructed") <=> ~touched[T]
        /\ (addr[T] = NoRef) <=> ~touched[T]

\* The eager touch ran after ordinary accessor calls had constructed and
\* incremented the instance, and did not construct again.
C4_Witness ==
    /\ last.op = "instance_init"
    /\ incs[last.T] > 0
    /\ ctor_count[last.T] = 1
    /\ \E U \in Types : instance_done[U] /\ incs[U] = 0 /\ U # last.T /\ ctor_count[U] = 1

\* The wrapper of T has been torn down (the body of its destructor has run).
TornDown(T) == t[T] \in {"destroying", "destroyed"}

\* C5 (destruction monotonicity): is_destroyed() of T is false in every state
\* before the teardown of T's wrapper (also before construction) and true in
\* every state after it, a call of is_destroyed() returns just that, and the
\* flag never goes from true back to false.
C5_DestructionMonotonic ==
    /\ [](\A T \in Types : is_destroyed(State, T) <=> TornDown(T))
    /\ [](last.op = "is_destroyed" => (last.flag <=> TornDown(last.T)))
    /\ [][\A T \in Types : m_is_destroyed[T] => m_is_destroyed'[T]]_vars

\* is_destroyed() returned true after teardown, with calls and a gate toggle
\* made since the teardown began.
C5_Witness ==
    /\ last.op = "is_destroyed"
    /\ last.flag
    /\ t[last.T] = "destroyed"
    /\ get_lock
    /\ \E U \in Types : U # last.T /\ ~m_is_destroyed[U] /\ t[U] = "constructed"

\* C6 (idempotent gate toggles): from every reachable state lock() leaves
\* is_locked() true and unlock() leaves it false, a second lock() (unlock())
\* gives the state of the first, both change nothing but the gate and both are
\* always enabled; a lock() or unlock() call just made left the gate so.
C6_IdempotentToggles ==
    /\ is_locked(lock(State))
    /\ ~is_locked(unlock(State))
    /\ lock(lock(State)) = lock(State)
    /\ unlock(unlock(State)) = unlock(State)
    /\ lock(State) = [State EXCEPT !.get_lock = TRUE]
    /\ unlock(State) = [State EXCEPT !.get_lock = FALSE]
    /\ \A T \in Types : ENABLED Lock(T) /\ ENABLED Unlock(T)
    /\ last.op = "lock" => get_lock
    /\ last.op = "unlock" => ~get_lock

\* lock() was called with the gate already locked, and the gate is locked.
C6_Witness ==
    /\ last.op = "lock"
    /\ last.pre_lock
    /\ get_lock

\* C7 (normal operation after a gate violation): a get_mutable_instance()
\* made when the last gate call was unlock() (or none was made) and T is not
\* destroyed returns the instance, whatever was locked or stopped before; one
\* made in the checked configuration when the last gate call was lock() is
\* stopped.
C7_UnlockRestores ==
    last.op \in MutableOps =>
        /\ (gate_last # "lock" /\ ~last.pre_destroyed) =>
              last.outcome = "returned" /\ last.ref # NoRef /\ last.ref = addr[last.T]
        /\ (gate_last = "lock" /\ checked) => last.outcome = "stopped"

\* lock(), a stopped get_mutable_instance() of T, unlock(), and now a
\* get_mutable_instance() of T that returned.
C7_Witness ==
    /\ checked
    /\ gate_stops[last.T]
    /\ gate_last = "unlock"
    /\ last.op = "get_mutable_instance"
    /\ last.outcome = "returned"
    /\ last.ref = addr[last.T]

\* C8 (state persists across accessors): while the object of T lives, its n
\* is the number of completed get_mutable_instance().n++ (0 from the first
\* access on), and that is the value get_const_instance().n reads.
C8_CounterPersists ==
    /\ \A T \in Types : Live(State, T) => n[T] = incs[T]
    /\ \A T \in Types : ~touched[T] => incs[T] = 0
    /\ (last.op = "get_const_instance" /\ last.outcome = "returned" /\ Live(State, last.T)) =>
          last.val = incs[last.T]

\* After three increments get_const_instance().n read 3.
C8_Witness ==
    /\ last.op = "get_const_instance"
    /\ last.outcome = "returned"
    /\ Live(State, last.T)
    /\ incs[last.T] = 3
    /\ last.val = 3

\* The lifecycle state of T as the interface shows it.
Lifecycle(T) ==
    IF m_is_destroyed[T] THEN "Destroyed"
    ELSE IF t[T] = "unconstructed" THEN "Unconstructed"
    ELSE "Constructed"

\* C9 (one-way lifecycle): the lifecycle of T changes only from Unconstructed
\* to Constructed, by an accessor call or the eager touch of T, and from
\* Constructed to Destroyed, by the teardown of T's wrapper and by no call of
\* the interface; the constructor runs at most once, and a destroyed T has
\* been constructed.
C9_OneWayLifecycle ==
    /\ [](\A T \in Types : ctor_count[T] <= 1)
    /\ [](\A T \in Types : m_is_destroyed[T] => ctor_count[T] = 1 /\ TornDown(T))
    /\ [][\A T \in Types :
            Lifecycle(T)' # Lifecycle(T) =>
               \/ /\ Lifecycle(T) = "Unconstructed"
                  /\ Lifecycle(T)' = "Constructed"
                  /\ last'.op \in AccessorOps \cup {"instance_init"}
                  /\ last'.T = T
               \/ /\ Lifecycle(T) = "Constructed"
                  /\ Lifecycle(T)' = "Destroyed"
                  /\ last'.op = "teardown_begin"
                  /\ last'.T = T]_vars

\* An accessor call on a T whose lifetime has ended: T stays Destroyed.
C9_Witness ==
    /\ last.op \in AccessorOps
    /\ t[last.T] = "destroyed"
    /\ Lifecycle(last.T) = "Destroyed"
    /\ ctor_count[last.T] = 1

\* C10 as stated: an accessor call made after the teardown of T's wrapper
\* (and, for get_mutable_instance(), with the gate unlocked) does not take the
\* fatal-stop path.
C10_NoStopAfterDestroy ==
    (/\ last.op \in AccessorOps
     /\ last.pre_destroyed
     /\ (last.op \in MutableOps => ~last.pre_lock)) =>
        last.outcome = "returned"

\* C10 (use after destroy), amended: get_instance() evaluates
\* BOOST_ASSERT(! m_is_destroyed) on every call, so in the checked
\* configuration every accessor call made while is_destroyed() is true takes
\* the fatal-stop path, and only in the unchecked configuration does such a
\* call return; no call constructs t a second time.
C10_StopAfterDestroy ==
    /\ \A T \in Types :
          is_destroyed(State, T) =>
             /\ get_const_instance(State, T).outcome =
                   (IF checked THEN "stopped" ELSE "returned")
             /\ get_mutable_instance(State, T).outcome =
                   (IF checked THEN "stopped" ELSE "returned")
             /\ get_const_instance(State, T).s = State
    /\ (last.op \in AccessorOps /\ last.pre_destroyed) =>
          (last.outcome = "stopped" <=> checked)

\* A get_const_instance() made after teardown, in the checked configuration,
\* was stopped.
C10_Witness ==
    /\ checked
    /\ last.op = "get_const_instance"
    /\ last.pre_destroyed
    /\ t[last.T] = "destroyed"
    /\ last.outcome = "stopped"

\* C11 as stated: while the destructor of the wrapped value T runs, the flag
\* is still false (it would be set only after that destructor).
C11_FlagSetLast ==
    \A T \in Types : t[T] = "destroying" => ~is_destroyed(State, T)

\* C11 (teardown ordering), amended: the flag is set by the body of
\* ~singleton_wrapper, which runs before the destructor of the base T: it
\* becomes true in the step that begins the teardown, is true all the while
\* T's destructor runs (is_destroyed() called from inside it returns true),
\* and the end of T's destructor leaves it as it is.
C11_FlagSetFirst ==
    /\ \A T \in Types : t[T] = "destroying" => is_destroyed(State, T)
    /\ \A T \in Types :
          t[T] = "constructed" =>
             LET s1 == singleton_wrapper_dtor(State, T)
             IN  /\ is_destroyed(s1, T)
                 /\ s1.t[T] = "destroying"
                 /\ base_dtor(s1, T).m_is_destroyed = s1.m_is_destroyed
    /\ (last.op = "is_destroyed" /\ t[last.T] = "destroying") => last.flag
    /\ last.op = "teardown_begin" => m_is_destroyed[last.T]

\* is_destroyed() of T, called while T's destructor runs, returned true.
C11_Witness ==
    /\ last.op = "is_destroyed"
    /\ t[last.T] = "destroying"
    /\ last.flag

\* C12 (thread-safe variant, first touch): in every interleaving of the
\* threads' calls of get_instance() the construction of t is begun at most
\* once; a thread runs the constructor only while it holds the mutex;
\* initialized is true only when the construction has completed; and no thread
\* is past the declaration of t, or has returned, before t is constructed (a
\* returned reference refers to the one constructed object).
C12_ConstructedOnceUnderMutex ==
    /\ ts_ctor_count <= 1
    /\ \A th \in Threads : ts_pc[th] = "ctor" => ts_mtx = th
    /\ ts_initialized => ts_t = "constructed"
    /\ \A th \in Threads :
          ts_pc[th] \in {"l112", "l113", "l117"} => ts_t = "constructed"
    /\ \A th \in Threads :
          ts_ret[th] # "none" => ts_ret[th] = "object" /\ ts_ctor_count = 1

\* Every thread made a first call that found initialized false and took the
\* mutex (the first touches were concurrent), and every one returned the object.
C12_Witness ==
    \A th \in Threads :
        /\ ts_calls[th] = 1
        /\ ts_pc[th] = "idle"
        /\ ts_acq[th]
        /\ ts_ret[th] = "object"

\* C13 as stated: once the first construction has completed and initialized
\* is set, no thread holds the mutex.
C13_MutexFreeAfterInit ==
    (ts_initialized /\ ts_t = "constructed") => ts_mtx = NoThread

\* The lines of get_instance() after the test of initialized.
TSAfterCheck == {"l108", "l111", "ctor", "l112", "l113", "l117"}

\* C13 (the mutex after the first construction), amended: the mutex is
\* acquired and held only by calls whose read of initialized gave false; a
\* call that read true never acquires it, and a call that read false (with
\* threadsafe) always does, also when the construction has completed and
\* initialized has been set in between; the thread that constructed holds it
\* from before the construction until after it has set initialized.
C13_MutexOnlyAfterReadingFalse ==
    /\ \A th \in Threads :
          ts_mtx = th => ts_pc[th] \in {"l111", "ctor", "l112", "l113"} /\ ~ts_saw[th]
    /\ \A th \in Threads : ts_acq[th] => ~ts_saw[th]
    /\ \A th \in Threads :
          (ts_pc[th] \in TSAfterCheck /\ ts_saw[th]) => ~ts_acq[th] /\ ~ts_locked[th]
    /\ \A th \in Threads :
          (ts_pc[th] \in {"l111", "ctor", "l112", "l113"} /\ ~ts_saw[th]) => ts_mtx = th
    /\ \A th \in Threads : ts_pc[th] = "l113" /\ ts_locked[th] => ts_initialized /\ ts_mtx = th

\* A thread that read initialized as false holds the mutex it acquired after
\* another thread had constructed t and set initialized.
C13_Witness ==
    \E th \in Threads :
        /\ ts_mtx = th
        /\ ts_pc[th] = "l111"
        /\ ts_initialized
        /\ ts_t = "constructed"
        /\ \E other \in Threads : other # th /\ ts_rel[other]

\* C19 (the thread-safe variant is deadlock free): a call that has reached its
\* return has released the mutex exactly if it acquired it, a call releases
\* only what it acquired, the mutex is free whenever no call is in progress,
\* and under fair scheduling every call of get_instance() returns.
C19_DeadlockFree ==
    /\ [](\A th \in Threads : ts_pc[th] \in {"l117", "idle"} => ts_acq[th] = ts_rel[th])
    /\ [](\A th \in Threads : ts_rel[th] => ts_acq[th])
    /\ []((\A th \in Threads : ts_pc[th] = "idle") => ts_mtx = NoThread)
    /\ \A th \in Threads : (ts_pc[th] # "idle") ~> (ts_pc[th] = "idle")

\* All calls have returned, one that acquired and released the mutex and one
\* that never touched it; the mutex is free.
C19_Witness ==
    /\ \A th \in Threads : ts_pc[th] = "idle" /\ ts_calls[th] = MaxCalls /\ ts_ret[th] = "object"
    /\ ts_mtx = NoThread
    /\ \E th \in Threads : ts_calls[th] = 1 \/ ~ts_acq[th]
    /\ ts_ctor_count = 1

\* C14 (checked and unchecked configuration): in the checked configuration
\* get_mutable_instance() called with the gate locked is stopped; in the
\* unchecked one the check is skipped: called with the gate locked it ends as it
\* does with the gate unlocked, constructing t if needed and returning the same
\* reference, with no stop and no change of the gate.
C14_UncheckedSkipsGate ==
    /\ \A T \in Types :
          LET r == get_mutable_instance(State, T)
              u == get_mutable_instance([State EXCEPT !.get_lock = FALSE], T)
          IN  /\ (checked /\ is_locked(State)) => r.outcome = "stopped"
              /\ ~checked =>
                    /\ r.outcome = "returned" /\ u.outcome = "returned"
                    /\ r.ref = u.ref /\ r.ref # NoRef /\ r.ref = r.s.addr[T]
                    /\ r.s.t[T] # "unconstructed"
                    /\ r.s = [u.s EXCEPT !.get_lock = State.get_lock]
    /\ (last.op \in MutableOps /\ checked /\ last.pre_lock) => last.outcome = "stopped"
    /\ (last.op \in MutableOps /\ ~checked) =>
          /\ last.outcome = "returned"
          /\ last.ref = addr[last.T] /\ last.ref # NoRef
          /\ get_lock = last.pre_lock

\* In the unchecked configuration the first access to T was a
\* get_mutable_instance() made with the gate locked: it constructed and returned.
C14_Witness ==
    /\ ~checked
    /\ last.op = "get_mutable_instance"
    /\ last.pre_lock /\ get_lock
    /\ last.outcome = "returned"
    /\ ctor_count[last.T] = 1 /\ ~instance_done[last.T] /\ incs[last.T] = 0
    /\ returned[last.T] = {last.ref}

\* C15 (the destruction flags are per type): the flag of T is true exactly
\* when T's own wrapper has been torn down; the destructor of T's wrapper
\* changes the flag of T only; and the flag of T changes only in the step that
\* begins the teardown of T, whatever is called or torn down for other types.
C15_FlagsIndependent ==
    /\ [](\A T \in Types : m_is_destroyed[T] <=> TornDown(T))
    /\ [](\A T \in Types :
            singleton_wrapper_dtor(State, T).m_is_destroyed =
               [m_is_destroyed EXCEPT ![T] = TRUE])
    /\ [][\A T \in Types :
            m_is_destroyed'[T] # m_is_destroyed[T] =>
               last'.op = "teardown_begin" /\ last'.T = T /\ m_is_destroyed'[T]]_vars

\* One type is torn down, the other is not; is_destroyed() of the other
\* returned false.
C15_Witness ==
    /\ last.op = "is_destroyed"
    /\ ~last.flag
    /\ t[last.T] = "constructed"
    /\ \E U \in Types : U # last.T /\ m_is_destroyed[U] /\ t[U] = "destroyed"

\* The per-type state: everything but the gate.
PerTypeState == <<t, m_is_destroyed, addr, next_addr, n, ctor_count, instance,
                  instance_done, returned, touched, incs>>

\* C16 (one global gate, independent of the lifecycles): the gate is unlocked
\* until the first lock(); there is one gate for all types (with it locked, in
\* the checked configuration, get_mutable_instance() of every type is stopped,
\* through whichever singleton<T> lock() was called); lock(), unlock() and
\* is_locked() change nothing of any instance; and the gate changes only in a
\* step of lock() or unlock(), never in an accessor call, a query or a teardown.
C16_GlobalGate ==
    /\ [](gate_last = "none" => ~get_lock)
    /\ [](gate_last # "none" => (get_lock <=> gate_last = "lock"))
    /\ []((checked /\ gate_last = "lock") =>
             \A T \in Types : get_mutable_instance(State, T).outcome = "stopped")
    /\ [][get_lock' # get_lock => last'.op \in {"lock", "unlock"}]_vars
    /\ [][(last' # last /\ last'.op \in {"lock", "unlock", "is_locked"}) =>
             UNCHANGED PerTypeState]_vars

\* lock() was called through singleton<A>, and get_mutable_instance() of the
\* constructed singleton<B> is stopped in this state.
C16_Witness ==
    /\ checked
    /\ last.op = "lock" /\ last.T = "A"
    /\ ~last.pre_lock
    /\ t["B"] = "constructed"
    /\ get_mutable_instance(State, "B").outcome = "stopped"

\* C17 (a rejected mutable request has no effect): in the checked
\* configuration get_mutable_instance() called with the gate locked stops
\* before get_instance(): the call leaves the whole state as it was, so an
\* unconstructed T stays unconstructed, and the flag and the gate are unchanged.
C17_RejectedHasNoEffect ==
    /\ [](\A T \in Types :
            (checked /\ is_locked(State)) =>
               LET r == get_mutable_instance(State, T)
               IN  r.outcome = "stopped" /\ r.s = State)
    /\ [](\A T \in Types :
            (gate_stops[T] /\ ~touched[T]) =>
               t[T] = "unconstructed" /\ ctor_count[T] = 0 /\ addr[T] = NoRef)
    /\ [][(last' # last /\ last'.op \in MutableOps /\ checked /\ last'.pre_lock) =>
             /\ last'.outcome = "stopped"
             /\ UNCHANGED <<progVars, returned, touched, incs, gate_last>>]_vars

\* A get_mutable_instance() of an unconstructed T was stopped by the gate, and
\* T is still unconstructed.
C17_Witness ==
    /\ checked
    /\ last.op = "get_mutable_instance"
    /\ last.outcome = "stopped"
    /\ gate_stops[last.T]
    /\ t[last.T] = "unconstructed"
    /\ ~m_is_destroyed[last.T]
    /\ get_lock

\* C18 (the queries are pure): is_destroyed() and is_locked() return and
\* leave the whole state unchanged, in every lifecycle state and gate state; an
\* unconstructed T stays unconstructed over is_destroyed().
C18_QueriesPure ==
    /\ [](\A T \in Types :
            LET r == is_destroyed_call(State, T)
            IN  r.s = State /\ r.outcome = "returned" /\ r.flag = m_is_destroyed[T])
    /\ [](LET r == is_locked_call(State)
          IN  r.s = State /\ r.outcome = "returned" /\ r.flag = get_lock)
    /\ [](last.op \in {"is_destroyed", "is_locked"} => last.outcome = "returned")
    /\ [][(last' # last /\ last'.op \in {"is_destroyed", "is_locked"}) =>
             UNCHANGED <<progVars, returned, touched, incs, gate_last, gate_stops>>]_vars

\* is_destroyed() was called on an unconstructed T, with the gate locked in
\* the checked configuration: it returned false and T is still unconstructed.
C18_Witness ==
    /\ checked /\ get_lock
    /\ last.op = "is_destroyed"
    /\ last.outcome = "returned" /\ ~last.flag
    /\ t[last.T] = "unconstructed" /\ ctor_count[last.T] = 0
    /\ \E U \in Types : t[U] = "destroyed"

=============================================================================
